---- MODULE Spec2Model ----
(***************************************************************************)
(* Binary buddy allocator of src/buddy.c: one arena of 2^MAX_ORDER bytes,  *)
(* pages of 2^MIN_ORDER bytes, one free list per order, XOR buddy          *)
(* addressing, recursive split on allocation, eager coalescing on free.    *)
(*                                                                         *)
(* A free list is modelled by the sequence of page indices met when the    *)
(* list is walked from free_area[k].next to the list head (head first).    *)
(* Addresses are integers; g_memory is the address of the arena.           *)
(***************************************************************************)
EXTENDS Integers, Sequences, FiniteSets, TLC

(* ------------------------------------------------------------------ *)
(* Program constants                                                  *)
(* ------------------------------------------------------------------ *)
MIN_ORDER == 12

MAX_ORDER == 20

PAGE_SIZE == 2 ^ MIN_ORDER

\* address of char g_memory[1<<MAX_ORDER]; deliberately not page aligned
g_memory == 8200

n_pages == (2 ^ MAX_ORDER) \div PAGE_SIZE

NULL == 0

(* ------------------------------------------------------------------ *)
(* Bounds of the exploration                                          *)
(* ------------------------------------------------------------------ *)
\* most calls made after one buddy_init
MaxCalls == 5

Orders == MIN_ORDER .. MAX_ORDER

Pages == 0 .. (n_pages - 1)

\* the sizes passed to buddy_alloc: 0 and 1, the page size and one byte more,
\* an eighth of the arena, half of it, all of it and one byte more
Sizes ==
    {0, 1, 2 ^ MIN_ORDER, 2 ^ MIN_ORDER + 1, 2 ^ (MAX_ORDER - 3),
     2 ^ (MAX_ORDER - 1), 2 ^ MAX_ORDER, 2 ^ MAX_ORDER + 1}

VARIABLES
    free_area,    \* free_area[k]: the pages linked on the list of order k
    g_pages,      \* g_pages[i]: the descriptor of page i
    pc,           \* "ready" between calls, "spin" inside while(1) of buddy_free
    outstanding,  \* addresses returned by buddy_alloc and not freed since
    last,         \* the last call made: its name, argument and result, and
                  \* whether the caller held the address it passed
    calls         \* the number of calls made since the last buddy_init

vars == <<free_area, g_pages, pc, outstanding, last, calls>>

(* ------------------------------------------------------------------ *)
(* Address arithmetic                                                 *)
(* ------------------------------------------------------------------ *)
RECURSIVE BitXor(_, _)
BitXor(a, b) ==
    IF a = 0 THEN b
    ELSE IF b = 0 THEN a
    ELSE (((a % 2) + (b % 2)) % 2) + (2 * BitXor(a \div 2, b \div 2))

PAGE_TO_ADDR(page_idx) == (page_idx * PAGE_SIZE) + g_memory

ADDR_TO_PAGE(addr) == (addr - g_memory) \div PAGE_SIZE

BUDDY_ADDR(addr, o) == BitXor(addr - g_memory, 2 ^ o) + g_memory

(* ------------------------------------------------------------------ *)
(* The list library, on the sequence a list walk yields               *)
(* ------------------------------------------------------------------ *)
\* INIT_LIST_HEAD on every free_area[i]
INIT_LIST_HEAD == [k \in Orders |-> <<>>]

\* list_add(new, &free_area[k]): link new right after the list head. A page
\* index that then occurs twice stands for a descriptor linked while it was
\* already linked; only a call outside the interface does that, and SpecMisuse
\* follows no behaviour beyond it
list_add(fa, new, k) == [fa EXCEPT ![k] = <<new>> \o @]

\* list_del_init(entry): unlink entry from the list it is on
list_del_init(fa, entry) ==
    [k \in Orders |-> SelectSeq(fa[k], LAMBDA x : x # entry)]

list_empty(fa, k) == fa[k] = <<>>

\* list_for_each over free_area[k], looking for one entry
OnList(fa, k, entry) == \E n \in 1 .. Len(fa[k]) : fa[k][n] = entry

(* ------------------------------------------------------------------ *)
(* buddy_init                                                         *)
(* ------------------------------------------------------------------ *)
InitPages ==
    [i \in Pages |->
        [index |-> i,
         address |-> PAGE_TO_ADDR(i),
         order |-> IF i = 0 THEN MAX_ORDER ELSE -1]]

InitFree == list_add(INIT_LIST_HEAD, 0, MAX_ORDER)

Init ==
    /\ free_area = InitFree
    /\ g_pages = InitPages
    /\ pc = "ready"
    /\ outstanding = {}
    /\ last = [op |-> "init", arg |-> 0, ret |-> NULL, held |-> TRUE]
    /\ calls = 0

\* buddy_init without the loop of INIT_LIST_HEAD (changed copy)
buddy_init_nolists ==
    /\ pc = "ready"
    /\ free_area' = list_add(free_area, 0, MAX_ORDER)
    /\ g_pages' = InitPages
    /\ outstanding' = {}
    /\ last' = [op |-> "init", arg |-> IF outstanding = {} THEN 0 ELSE 1,
                ret |-> NULL, held |-> TRUE]
    /\ calls' = 0
    /\ UNCHANGED pc

\* last.arg tells whether blocks were held when buddy_init was called
buddy_init ==
    /\ pc = "ready"
    /\ free_area' = InitFree
    /\ g_pages' = InitPages
    /\ outstanding' = {}
    /\ last' = [op |-> "init", arg |-> IF outstanding = {} THEN 0 ELSE 1,
                ret |-> NULL, held |-> TRUE]
    /\ calls' = 0
    /\ UNCHANGED pc

(* ------------------------------------------------------------------ *)
(* determineOrder, splitMemory, buddy_alloc                           *)
(* ------------------------------------------------------------------ *)
\* the loop of determineOrder with a strict comparison (changed copy)
RECURSIVE determineOrder_loop_strict(_, _)
determineOrder_loop_strict(order, size) ==
    IF order > MAX_ORDER THEN -1
    ELSE IF 2 ^ order > size THEN order
    ELSE determineOrder_loop_strict(order + 1, size)

\* determineOrder with (1<<order) > size (changed copy)
determineOrder_strict(size) == determineOrder_loop_strict(MIN_ORDER, size)

\* the for loop of determineOrder, from the order of the present iteration
RECURSIVE determineOrder_loop(_, _)
determineOrder_loop(order, size) ==
    IF order > MAX_ORDER THEN -1
    ELSE IF 2 ^ order >= size THEN order
    ELSE determineOrder_loop(order + 1, size)

determineOrder(size) == determineOrder_loop(MIN_ORDER, size)

\* splitMemory that stamps the right half but never links it (changed copy)
RECURSIVE splitMemory_lost(_, _, _, _)
splitMemory_lost(st, page, order, orderNeeded) ==
    IF order = orderNeeded THEN st
    ELSE LET buddy == ADDR_TO_PAGE(BUDDY_ADDR(st.pg[page].address, order - 1))
             pg1 == [st.pg EXCEPT ![buddy].order = order - 1]
         IN  splitMemory_lost([fa |-> st.fa, pg |-> pg1], page, order - 1,
                              orderNeeded)

\* splitMemory without buddy->order = order-1 (changed copy)
RECURSIVE splitMemory_stale(_, _, _, _)
splitMemory_stale(st, page, order, orderNeeded) ==
    IF order = orderNeeded THEN st
    ELSE LET buddy == ADDR_TO_PAGE(BUDDY_ADDR(st.pg[page].address, order - 1))
             fa1 == list_add(st.fa, buddy, order - 1)
         IN  splitMemory_stale([fa |-> fa1, pg |-> st.pg],
                               page, order - 1, orderNeeded)

\* the state [fa, pg] after splitMemory(page, order, orderNeeded)
RECURSIVE splitMemory(_, _, _, _)
splitMemory(st, page, order, orderNeeded) ==
    IF order = orderNeeded THEN st
    ELSE LET buddy == ADDR_TO_PAGE(BUDDY_ADDR(st.pg[page].address, order - 1))
             pg1 == [st.pg EXCEPT ![buddy].order = order - 1]
             fa1 == list_add(st.fa, buddy, order - 1)
         IN  splitMemory([fa |-> fa1, pg |-> pg1], page, order - 1, orderNeeded)

\* the scan that looks at the list of orderNeeded alone (changed copy)
FirstFit_exact(fa, orderNeeded) ==
    IF ~list_empty(fa, orderNeeded) THEN orderNeeded ELSE -1

\* the order of the first non-empty list at or above orderNeeded, or -1
FirstFit(fa, orderNeeded) ==
    IF \E i \in orderNeeded .. MAX_ORDER : ~list_empty(fa, i)
    THEN CHOOSE i \in orderNeeded .. MAX_ORDER :
            /\ ~list_empty(fa, i)
            /\ \A j \in orderNeeded .. (i - 1) : list_empty(fa, j)
    ELSE -1

\* buddy_alloc that takes the entry at the tail of the list (changed copy)
AllocCall_tail(st, size) ==
    LET orderNeeded == determineOrder(size)
        i == IF orderNeeded = -1 THEN -1 ELSE FirstFit(st.fa, orderNeeded)
    IN  IF i = -1
        THEN [fa |-> st.fa, pg |-> st.pg, ret |-> NULL]
        ELSE LET page == st.fa[i][Len(st.fa[i])]
                 s1 == [fa |-> list_del_init(st.fa, page), pg |-> st.pg]
                 s2 == splitMemory(s1, page, i, orderNeeded)
                 pg3 == [s2.pg EXCEPT ![page].order = orderNeeded]
             IN  [fa |-> s2.fa, pg |-> pg3, ret |-> pg3[page].address]

\* buddy_alloc without list_del_init(&(page->list)) (changed copy)
AllocCall_nounlink(st, size) ==
    LET orderNeeded == determineOrder(size)
        i == IF orderNeeded = -1 THEN -1 ELSE FirstFit(st.fa, orderNeeded)
    IN  IF i = -1
        THEN [fa |-> st.fa, pg |-> st.pg, ret |-> NULL]
        ELSE LET page == Head(st.fa[i])
                 s2 == splitMemory(st, page, i, orderNeeded)
                 pg3 == [s2.pg EXCEPT ![page].order = orderNeeded]
             IN  [fa |-> s2.fa, pg |-> pg3, ret |-> pg3[page].address]

\* buddy_alloc that scans from MIN_ORDER and unlinks the block it finds before
\* it tests whether the block is large enough (changed copy)
AllocCall_unlinkfirst(st, size) ==
    LET orderNeeded == determineOrder(size)
        i == IF orderNeeded = -1 THEN -1 ELSE FirstFit(st.fa, MIN_ORDER)
    IN  IF i = -1
        THEN [fa |-> st.fa, pg |-> st.pg, ret |-> NULL]
        ELSE LET page == Head(st.fa[i])
                 s1 == [fa |-> list_del_init(st.fa, page), pg |-> st.pg]
             IN  IF i < orderNeeded
                 THEN [fa |-> s1.fa, pg |-> s1.pg, ret |-> NULL]
                 ELSE LET s2 == splitMemory(s1, page, i, orderNeeded)
                          pg3 == [s2.pg EXCEPT ![page].order = orderNeeded]
                      IN  [fa |-> s2.fa, pg |-> pg3, ret |-> pg3[page].address]

\* buddy_alloc(size) run on the state st: the state after it and its result
AllocCall(st, size) ==
    LET orderNeeded == determineOrder(size)
        i == IF orderNeeded = -1 THEN -1 ELSE FirstFit(st.fa, orderNeeded)
    IN  IF i = -1
        THEN [fa |-> st.fa, pg |-> st.pg, ret |-> NULL]
        ELSE LET page == Head(st.fa[i])
                 s1 == [fa |-> list_del_init(st.fa, page), pg |-> st.pg]
                 s2 == splitMemory(s1, page, i, orderNeeded)
                 pg3 == [s2.pg EXCEPT ![page].order = orderNeeded]
             IN  [fa |-> s2.fa, pg |-> pg3, ret |-> pg3[page].address]

Now == [fa |-> free_area, pg |-> g_pages]

buddy_alloc(size) ==
    /\ pc = "ready"
    /\ calls' = calls + 1
    /\ LET r == AllocCall(Now, size)
       IN  /\ free_area' = r.fa
           /\ g_pages' = r.pg
           /\ outstanding' =
                 IF r.ret = NULL THEN outstanding ELSE outstanding \cup {r.ret}
           /\ last' = [op |-> "alloc", arg |-> size, ret |-> r.ret, held |-> TRUE]
    /\ UNCHANGED pc

(* ------------------------------------------------------------------ *)
(* buddy_free                                                         *)
(* ------------------------------------------------------------------ *)
\* the loop without "if (buddy < page) page = buddy" (changed copy)
RECURSIVE Coalesce_keeppage(_, _, _)
Coalesce_keeppage(st, page, i) ==
    IF i >= MAX_ORDER THEN [fa |-> st.fa, pg |-> st.pg, page |-> page, i |-> i]
    ELSE LET buddy == ADDR_TO_PAGE(BUDDY_ADDR(st.pg[page].address, i))
             freed == OnList(st.fa, i, buddy)
         IN  IF ~freed
             THEN [fa |-> st.fa, pg |-> st.pg, page |-> page, i |-> i]
             ELSE Coalesce_keeppage(
                      [fa |-> list_del_init(st.fa, buddy), pg |-> st.pg],
                      page, i + 1)

\* the loop without list_del_init(&buddy->list) (changed copy)
RECURSIVE Coalesce_nodelete(_, _, _)
Coalesce_nodelete(st, page, i) ==
    IF i >= MAX_ORDER THEN [fa |-> st.fa, pg |-> st.pg, page |-> page, i |-> i]
    ELSE LET buddy == ADDR_TO_PAGE(BUDDY_ADDR(st.pg[page].address, i))
             freed == OnList(st.fa, i, buddy)
         IN  IF ~freed
             THEN [fa |-> st.fa, pg |-> st.pg, page |-> page, i |-> i]
             ELSE Coalesce_nodelete(st, IF buddy < page THEN buddy ELSE page,
                                    i + 1)

\* an "if" in place of the loop: one merge at most (changed copy)
Coalesce_once(st, page, i) ==
    IF i >= MAX_ORDER THEN [fa |-> st.fa, pg |-> st.pg, page |-> page, i |-> i]
    ELSE LET buddy == ADDR_TO_PAGE(BUDDY_ADDR(st.pg[page].address, i))
             freed == OnList(st.fa, i, buddy)
         IN  IF ~freed
             THEN [fa |-> st.fa, pg |-> st.pg, page |-> page, i |-> i]
             ELSE [fa |-> list_del_init(st.fa, buddy), pg |-> st.pg,
                   page |-> IF buddy < page THEN buddy ELSE page, i |-> i + 1]

\* the loop that always takes the break: no merge (changed copy)
Coalesce_never(st, page, i) ==
    [fa |-> st.fa, pg |-> st.pg, page |-> page, i |-> i]

\* the for loop of buddy_free with i < MAX_ORDER - 1 (changed copy)
RECURSIVE Coalesce_stopshort(_, _, _)
Coalesce_stopshort(st, page, i) ==
    IF i >= MAX_ORDER - 1
    THEN [fa |-> st.fa, pg |-> st.pg, page |-> page, i |-> i]
    ELSE LET buddy == ADDR_TO_PAGE(BUDDY_ADDR(st.pg[page].address, i))
             freed == OnList(st.fa, i, buddy)
         IN  IF ~freed
             THEN [fa |-> st.fa, pg |-> st.pg, page |-> page, i |-> i]
             ELSE Coalesce_stopshort(
                      [fa |-> list_del_init(st.fa, buddy), pg |-> st.pg],
                      IF buddy < page THEN buddy ELSE page,
                      i + 1)

\* the for loop of buddy_free from loop counter i on: the state, the page and
\* the counter it ends with
RECURSIVE Coalesce(_, _, _)
Coalesce(st, page, i) ==
    IF i >= MAX_ORDER THEN [fa |-> st.fa, pg |-> st.pg, page |-> page, i |-> i]
    ELSE LET buddy == ADDR_TO_PAGE(BUDDY_ADDR(st.pg[page].address, i))
             freed == OnList(st.fa, i, buddy)
         IN  IF ~freed
             THEN [fa |-> st.fa, pg |-> st.pg, page |-> page, i |-> i]
             ELSE Coalesce([fa |-> list_del_init(st.fa, buddy), pg |-> st.pg],
                           IF buddy < page THEN buddy ELSE page,
                           i + 1)

\* buddy_free that writes the order into the descriptor of the buddy of the
\* block it links (changed copy)
FreeCall_buddyorder(st, addr) ==
    LET page == ADDR_TO_PAGE(addr)
        currentOrder == st.pg[page].order
    IN  IF (currentOrder < MIN_ORDER) \/ (currentOrder > MAX_ORDER)
        THEN [fa |-> st.fa, pg |-> st.pg, spin |-> TRUE]
        ELSE LET c == Coalesce(st, page, currentOrder)
                 q == IF c.i < MAX_ORDER
                      THEN ADDR_TO_PAGE(BUDDY_ADDR(c.pg[c.page].address, c.i))
                      ELSE c.page
                 pg1 == [c.pg EXCEPT ![c.page].order = c.i, ![q].order = c.i]
             IN  [fa |-> list_add(c.fa, c.page, c.i), pg |-> pg1, spin |-> FALSE]

\* buddy_free that sets the order one above the loop counter (changed copy)
FreeCall_plusone(st, addr) ==
    LET page == ADDR_TO_PAGE(addr)
        currentOrder == st.pg[page].order
    IN  IF (currentOrder < MIN_ORDER) \/ (currentOrder > MAX_ORDER)
        THEN [fa |-> st.fa, pg |-> st.pg, spin |-> TRUE]
        ELSE LET c == Coalesce(st, page, currentOrder)
                 pg1 == [c.pg EXCEPT ![c.page].order = c.i + 1]
             IN  [fa |-> list_add(c.fa, c.page, c.i), pg |-> pg1, spin |-> FALSE]

\* buddy_free that returns after the diagnostic (changed copy)
FreeCall_return(st, addr) ==
    LET page == ADDR_TO_PAGE(addr)
        currentOrder == st.pg[page].order
    IN  IF (currentOrder < MIN_ORDER) \/ (currentOrder > MAX_ORDER)
        THEN [fa |-> st.fa, pg |-> st.pg, spin |-> FALSE]
        ELSE LET c == Coalesce(st, page, currentOrder)
                 pg1 == [c.pg EXCEPT ![c.page].order = c.i]
             IN  [fa |-> list_add(c.fa, c.page, c.i), pg |-> pg1, spin |-> FALSE]

\* buddy_free whose check reads "currentOrder <= MIN_ORDER" (changed copy)
FreeCall_strict(st, addr) ==
    LET page == ADDR_TO_PAGE(addr)
        currentOrder == st.pg[page].order
    IN  IF (currentOrder <= MIN_ORDER) \/ (currentOrder > MAX_ORDER)
        THEN [fa |-> st.fa, pg |-> st.pg, spin |-> TRUE]
        ELSE LET c == Coalesce(st, page, currentOrder)
                 pg1 == [c.pg EXCEPT ![c.page].order = c.i]
             IN  [fa |-> list_add(c.fa, c.page, c.i), pg |-> pg1, spin |-> FALSE]

\* buddy_free that takes an order out of range for MIN_ORDER and goes on
\* (changed copy)
FreeCall_clamp(st, addr) ==
    LET page == ADDR_TO_PAGE(addr)
        read == st.pg[page].order
        currentOrder ==
            IF (read < MIN_ORDER) \/ (read > MAX_ORDER) THEN MIN_ORDER ELSE read
        c == Coalesce(st, page, currentOrder)
        pg1 == [c.pg EXCEPT ![c.page].order = c.i]
    IN  [fa |-> list_add(c.fa, c.page, c.i), pg |-> pg1, spin |-> FALSE]

\* buddy_free(addr) run on the state st: the state after it, and whether the
\* call stopped at the order check (spin = TRUE: it is inside while(1))
FreeCall(st, addr) ==
    LET page == ADDR_TO_PAGE(addr)
        currentOrder == st.pg[page].order
    IN  IF (currentOrder < MIN_ORDER) \/ (currentOrder > MAX_ORDER)
        THEN [fa |-> st.fa, pg |-> st.pg, spin |-> TRUE]
        ELSE LET c == Coalesce(st, page, currentOrder)
                 pg1 == [c.pg EXCEPT ![c.page].order = c.i]
             IN  [fa |-> list_add(c.fa, c.page, c.i), pg |-> pg1, spin |-> FALSE]

buddy_free(addr) ==
    /\ pc = "ready"
    /\ calls' = calls + 1
    /\ LET r == FreeCall(Now, addr)
       IN  /\ free_area' = r.fa
           /\ g_pages' = r.pg
           /\ pc' = IF r.spin THEN "spin" ELSE "ready"
           /\ outstanding' =
                 IF r.spin THEN outstanding
                 ELSE outstanding \ {PAGE_TO_ADDR(ADDR_TO_PAGE(addr))}
    /\ last' = [op |-> "free", arg |-> addr, ret |-> NULL,
                held |-> addr \in outstanding]

(* ------------------------------------------------------------------ *)
(* Specifications                                                     *)
(* ------------------------------------------------------------------ *)
AllocAny == calls < MaxCalls /\ \E size \in Sizes : buddy_alloc(size)

FreeOutstanding ==
    calls < MaxCalls /\ \E addr \in outstanding : buddy_free(addr)

\* the calls the interface allows
Next == buddy_init \/ AllocAny \/ FreeOutstanding

Spec == Init /\ [][Next]_vars

\* the pages probed by a caller that breaks the interface: every page whose
\* order field passes the check of buddy_free, and the last two pages of the
\* arena for those it rejects (the rejected path reads nothing but that field)
ProbePages ==
    {p \in Pages : g_pages[p].order \in Orders \/ p >= n_pages - 2}

\* an offset inside a page, for addresses that are not page starts
InteriorOffset == 8

ProbeAddrs == {PAGE_TO_ADDR(p) + d : p \in ProbePages, d \in {0, InteriorOffset}}

FreeAnywhere == calls < MaxCalls /\ \E addr \in ProbeAddrs : buddy_free(addr)

\* the same calls, and buddy_free on any address of the arena, up to the first
\* call that passes an address the caller does not hold: what follows such a
\* call is not defined by the interface
NextMisuse ==
    \/ last.held /\ buddy_init
    \/ last.held /\ AllocAny
    \/ last.held /\ FreeAnywhere

SpecMisuse == Init /\ [][NextMisuse]_vars

(* ------------------------------------------------------------------ *)
(* Vocabulary of the properties                                       *)
(* ------------------------------------------------------------------ *)
\* the places <<k, n>> of the free lists: entry n of the list of order k
FreeEntries == UNION {{<<k, n>> : n \in 1 .. Len(free_area[k])} : k \in Orders}

EntryPage(e) == free_area[e[1]][e[2]]

\* the pages of the block of order k headed by page p
BlockPages(p, k) == p .. (p + 2 ^ (k - MIN_ORDER) - 1)

\* the pages of the block the caller holds at address a
HeldPages(a) == BlockPages(ADDR_TO_PAGE(a), g_pages[ADDR_TO_PAGE(a)].order)

\* the page index of the buddy of the block of order k at page p
BuddyPage(p, k) == BitXor(p, 2 ^ (k - MIN_ORDER))

\* the entries of one list as a set
ListSet(fa, k) == {fa[k][n] : n \in 1 .. Len(fa[k])}

\* the state buddy_alloc or buddy_free leaves, for the next call
After(r) == [fa |-> r.fa, pg |-> r.pg]

(* ------------------------------------------------------------------ *)
(* C1                                                                 *)
(* ------------------------------------------------------------------ *)
\* C1: after buddy_init and any calls of buddy_alloc and of buddy_free on
\* outstanding addresses, the free blocks and the outstanding blocks partition
\* the arena: every page lies in exactly one of them.
C1_Partition ==
    LET free == {<<e, BlockPages(EntryPage(e), e[1])>> : e \in FreeEntries}
        held == {<<a, HeldPages(a)>> : a \in outstanding}
    IN  \A page \in Pages :
            Cardinality({b \in free : page \in b[2]})
              + Cardinality({b \in held : page \in b[2]}) = 1

\* two blocks are held, a buddy_free has just returned and blocks smaller than
\* the arena are free
C1_Witness ==
    /\ last.op = "free"
    /\ Cardinality(outstanding) >= 2
    /\ \E k \in MIN_ORDER .. (MAX_ORDER - 1) : free_area[k] # <<>>

(* ------------------------------------------------------------------ *)
(* C2                                                                 *)
(* ------------------------------------------------------------------ *)
\* C2: eager coalescing: for every block on free_area[k] with k < MAX_ORDER the
\* descriptor of its buddy, page XOR 2^(k-MIN_ORDER), is not on free_area[k].
C2_EagerCoalescing ==
    \A k \in MIN_ORDER .. (MAX_ORDER - 1) :
        \A p \in ListSet(free_area, k) : BuddyPage(p, k) \notin ListSet(free_area, k)

\* a buddy_free has merged the halves of a block that had been split and has
\* stopped below MAX_ORDER, next to a buddy that is held
C2_Witness ==
    /\ last.op = "free"
    /\ \E k \in (MIN_ORDER + 1) .. (MAX_ORDER - 1) :
          /\ free_area[k] # <<>>
          /\ ADDR_TO_PAGE(last.arg) \in BlockPages(Head(free_area[k]), k)
          /\ g_pages[BuddyPage(Head(free_area[k]), k - 1)].order = k - 1
          /\ \E a \in outstanding :
                ADDR_TO_PAGE(a) \in BlockPages(BuddyPage(Head(free_area[k]), k), k)

(* ------------------------------------------------------------------ *)
(* C3                                                                 *)
(* ------------------------------------------------------------------ *)
\* C3: whenever no allocation is outstanding the free lists are those buddy_init
\* leaves: page 0, with order MAX_ORDER, alone on free_area[MAX_ORDER], and no
\* other list holds anything.
C3_AllFreedIsInit ==
    outstanding = {} =>
        /\ free_area = InitFree
        /\ g_pages[0].order = MAX_ORDER

\* the last of at least two blocks has just been freed
C3_Witness ==
    /\ outstanding = {}
    /\ last.op = "free"
    /\ calls >= 4

(* ------------------------------------------------------------------ *)
(* C4                                                                 *)
(* ------------------------------------------------------------------ *)
\* C4: in every reachable state and for every size s, when buddy_alloc(s)
\* returns a non-null p, buddy_free(p) called next returns and leaves every free
\* list with the set of blocks it held before the buddy_alloc(s).
C4_FreeUndoesAlloc ==
    \A s \in Sizes :
        LET a == AllocCall(Now, s)
        IN  a.ret # NULL =>
                LET f == FreeCall(After(a), a.ret)
                IN  /\ ~f.spin
                    /\ \A k \in Orders : ListSet(f.fa, k) = ListSet(free_area, k)

\* blocks are held, and a size exists whose allocation splits a block over at
\* least two orders, so that the free after it merges over as many
C4_Witness ==
    /\ Cardinality(outstanding) >= 2
    /\ \E s \in Sizes :
          /\ AllocCall(Now, s).ret # NULL
          /\ FirstFit(free_area, determineOrder(s)) >= determineOrder(s) + 2
          /\ FreeCall(After(AllocCall(Now, s)), AllocCall(Now, s).ret).fa
                # AllocCall(Now, s).fa

(* ------------------------------------------------------------------ *)
(* C5                                                                 *)
(* ------------------------------------------------------------------ *)
\* C5: in every reachable state, when buddy_alloc(s) returns a non-null p and p
\* is freed with no call in between, the next buddy_alloc(s) returns p again.
C5_SameAddressAgain ==
    \A s \in Sizes :
        LET a == AllocCall(Now, s)
        IN  a.ret # NULL =>
                AllocCall(After(FreeCall(After(a), a.ret)), s).ret = a.ret

\* the list the allocation is served from holds two blocks, so which end of it
\* is taken decides the address
C5_Witness ==
    /\ last.op = "free"
    /\ \E s \in Sizes :
          /\ AllocCall(Now, s).ret # NULL
          /\ Len(free_area[determineOrder(s)]) >= 2

(* ------------------------------------------------------------------ *)
(* C6                                                                 *)
(* ------------------------------------------------------------------ *)
\* C6: whenever buddy_alloc returns NULL, for a size above 2^MAX_ORDER or with
\* every list from the order of the size up empty, it changes no free list and
\* no page descriptor.
C6_NullChangesNothing ==
    \A s \in Sizes :
        LET a == AllocCall(Now, s)
        IN  a.ret = NULL => (a.fa = free_area /\ a.pg = g_pages)

\* a buddy_alloc of a size the arena could hold has just returned NULL while
\* smaller blocks are still free
C6_Witness ==
    /\ last.op = "alloc"
    /\ last.ret = NULL
    /\ last.arg <= 2 ^ MAX_ORDER
    /\ \E k \in Orders : free_area[k] # <<>>

(* ------------------------------------------------------------------ *)
(* C9                                                                 *)
(* ------------------------------------------------------------------ *)
\* C9: every block on a free list is aligned to its order: a descriptor on
\* free_area[k] has a page index divisible by 2^(k-MIN_ORDER) and a byte offset
\* from the arena divisible by 2^k.
C9_Aligned ==
    \A k \in Orders :
        \A p \in ListSet(free_area, k) :
            /\ p % (2 ^ (k - MIN_ORDER)) = 0
            /\ (g_pages[p].address - g_memory) % (2 ^ k) = 0

\* a buddy_free has merged the block into one headed by a lower page, while
\* right halves of a split are on other lists
C9_Witness ==
    /\ last.op = "free"
    /\ \E k \in (MIN_ORDER + 1) .. (MAX_ORDER - 1) :
          /\ free_area[k] # <<>>
          /\ Head(free_area[k]) < ADDR_TO_PAGE(last.arg)
          /\ ADDR_TO_PAGE(last.arg) \in BlockPages(Head(free_area[k]), k)
    /\ Cardinality({k \in Orders : free_area[k] # <<>>}) >= 2

(* ------------------------------------------------------------------ *)
(* C10                                                                *)
(* ------------------------------------------------------------------ *)
\* C10: no page descriptor is linked on two free lists, and none is linked twice
\* on one list.
C10_UniqueMembership ==
    \A e \in FreeEntries, f \in FreeEntries :
        EntryPage(e) = EntryPage(f) => e = f

\* a buddy_free has just merged and unlinked a buddy while several lists hold
\* blocks
C10_Witness ==
    /\ last.op = "free"
    /\ Cardinality(FreeEntries) >= 3
    /\ \E k \in (MIN_ORDER + 1) .. MAX_ORDER :
          /\ free_area[k] # <<>>
          /\ ADDR_TO_PAGE(last.arg) \in BlockPages(Head(free_area[k]), k)

FillSizes == Sizes \cup {2 ^ k : k \in Orders}

\* the order the run fills the arena with: that of the blocks held, or that of
\* the last call when nothing is held
FillOrder ==
    IF outstanding # {}
    THEN g_pages[ADDR_TO_PAGE(CHOOSE a \in outstanding : TRUE)].order
    ELSE IF last.op = "alloc" THEN determineOrder(last.arg)
    ELSE g_pages[ADDR_TO_PAGE(last.arg)].order

\* the number of blocks of the order of the run in the arena
FillCount == 2 ^ (MAX_ORDER - FillOrder)

Exhausted == \A k \in Orders : list_empty(free_area, k)

\* the first buddy_alloc of a run, of any size the arena can hold
FillFirst ==
    /\ calls = 0
    /\ \E size \in FillSizes : size <= 2 ^ MAX_ORDER /\ buddy_alloc(size)

\* one more buddy_alloc of the order of the run, after a buddy_alloc that gave a
\* block or after a buddy_free
FillMore ==
    /\ 0 < calls /\ calls < n_pages + 3
    /\ ~Exhausted
    /\ last.op = "free" \/ last.ret # NULL
    /\ \E size \in FillSizes :
          determineOrder(size) = FillOrder /\ buddy_alloc(size)

\* a buddy_alloc of any size once no block is free
FillBeyond ==
    /\ 0 < calls /\ calls < n_pages + 3
    /\ Exhausted
    /\ last.op = "free" \/ last.ret # NULL
    /\ \E size \in FillSizes : buddy_alloc(size)

\* buddy_free of any one of the blocks held, after a buddy_alloc returned NULL
FillRelease ==
    /\ calls < n_pages + 3
    /\ last.op = "alloc" /\ last.ret = NULL
    /\ \E addr \in outstanding : buddy_free(addr)

NextFill == FillFirst \/ FillMore \/ FillBeyond \/ FillRelease

SpecFill == Init /\ [][NextFill]_vars

(* ------------------------------------------------------------------ *)
(* C11                                                                *)
(* ------------------------------------------------------------------ *)
\* C11: from the state buddy_init leaves, repeated buddy_alloc of sizes of one
\* order T succeeds exactly 2^(MAX_ORDER-T) times, with pairwise distinct
\* addresses of which the first is the arena base; then every free list is empty
\* and buddy_alloc of any size returns NULL; after buddy_free of any one of the
\* blocks, buddy_alloc of a size of order T succeeds again.
C11_FillExactly ==
    calls >= 1 =>
        /\ calls = 1 => last.ret = g_memory
        /\ calls <= FillCount =>
              /\ last.op = "alloc"
              /\ last.ret # NULL
              /\ Cardinality(outstanding) = calls
        /\ Cardinality(outstanding) = FillCount =>
              /\ Exhausted
              /\ \A s \in FillSizes : AllocCall(Now, s).ret = NULL
        /\ calls = FillCount + 1 => (last.op = "alloc" /\ last.ret = NULL)
        /\ last.op = "free" =>
              \A s \in FillSizes :
                  determineOrder(s) = FillOrder => AllocCall(Now, s).ret # NULL
        /\ calls = FillCount + 3 => (last.op = "alloc" /\ last.ret # NULL)

\* the arena was filled with blocks of one page, a further buddy_alloc returned
\* NULL, one block was freed and allocated again
C11_Witness ==
    /\ calls = n_pages + 3
    /\ FillOrder = MIN_ORDER
    /\ last.op = "alloc"
    /\ last.ret # NULL
    /\ Cardinality(outstanding) = n_pages

(* ------------------------------------------------------------------ *)
(* C12                                                                *)
(* ------------------------------------------------------------------ *)
\* the sizes at the edges of every order: 0, 1, and 2^k - 1, 2^k, 2^k + 1
EdgeSizes ==
    {0, 1} \cup {s \in {2 ^ k + d : k \in Orders, d \in {-1, 0, 1}} :
                    s <= 2 ^ MAX_ORDER}

\* the smallest k in [MIN_ORDER, MAX_ORDER] with 2^k >= size
SmallestOrder(size) ==
    CHOOSE k \in Orders :
        /\ 2 ^ k >= size
        /\ \A j \in Orders : j < k => 2 ^ j < size

\* the pages of the blocks held in the state st; each block has the order of
\* the descriptor at its head
HeldPagesIn(st, held) ==
    UNION {BlockPages(ADDR_TO_PAGE(a), st.pg[ADDR_TO_PAGE(a)].order) : a \in held}

\* C12: the block buddy_alloc(size) returns has the order of the smallest k in
\* [MIN_ORDER, MAX_ORDER] with 2^k >= size, for sizes from 0 to 2^MAX_ORDER;
\* buddy_alloc(0) and buddy_alloc(1) return, whenever a block is free, a block
\* of 2^MIN_ORDER bytes that is not NULL and shares no page with a held one.
C12_SmallestOrder ==
    /\ (last.op = "alloc" /\ last.ret # NULL) =>
          g_pages[ADDR_TO_PAGE(last.ret)].order = SmallestOrder(last.arg)
    /\ \A size \in EdgeSizes :
          LET r == AllocCall(Now, size)
          IN  r.ret # NULL =>
                  r.pg[ADDR_TO_PAGE(r.ret)].order = SmallestOrder(size)
    /\ \A size \in {0, 1} :
          LET r == AllocCall(Now, size)
              p == ADDR_TO_PAGE(r.ret)
          IN  ~Exhausted =>
                  /\ r.ret # NULL
                  /\ r.ret = PAGE_TO_ADDR(p)
                  /\ r.pg[p].order = MIN_ORDER
                  /\ r.ret \notin outstanding
                  /\ p \notin HeldPagesIn(r, outstanding)
                  /\ \A k \in Orders : \A e \in ListSet(r.fa, k) :
                        p \notin BlockPages(e, k)

\* buddy_alloc(0) returned a block of one page while two other blocks were held
C12_Witness ==
    /\ last.op = "alloc"
    /\ last.arg = 0
    /\ last.ret # NULL
    /\ g_pages[ADDR_TO_PAGE(last.ret)].order = MIN_ORDER
    /\ Cardinality(outstanding) = 3

(* ------------------------------------------------------------------ *)
(* Runs of allocations followed by frees                              *)
(* ------------------------------------------------------------------ *)
\* the number of buddy_alloc calls at the start of a run
ScenarioAllocs == 3

\* the sizes of the runs: those of Sizes and two pages
ScenarioSizes == Sizes \cup {2 ^ (MIN_ORDER + 1)}

\* buddy_alloc of any size, while no block of the run has been freed
ScenarioAlloc ==
    /\ calls < ScenarioAllocs
    /\ last.op # "free"
    /\ \E size \in ScenarioSizes : buddy_alloc(size)

\* buddy_free of any block held
ScenarioFree ==
    /\ calls < 2 * ScenarioAllocs
    /\ \E addr \in outstanding : buddy_free(addr)

NextScenario == ScenarioAlloc \/ ScenarioFree

SpecScenario == Init /\ [][NextScenario]_vars

\* the state buddy_init leaves, for the first call
InitState == [fa |-> InitFree, pg |-> InitPages]

(* ------------------------------------------------------------------ *)
(* C13                                                                *)
(* ------------------------------------------------------------------ *)
\* buddy_init, buddy_alloc of one page, buddy_alloc(1): two blocks of one page
\* are held and the second call asked for 1 byte
Scenario2Allocated ==
    /\ calls = 2
    /\ last.op = "alloc"
    /\ last.arg = 1
    /\ Cardinality(outstanding) = 2
    /\ \A a \in outstanding : g_pages[ADDR_TO_PAGE(a)].order = MIN_ORDER

\* C13 as stated: after buddy_init, buddy_alloc(1) and a second buddy_alloc(1)
\* the free lists contain exactly one block at each of the orders 12 to 19 and
\* none at order 20.
C13_OneBlockAtEveryOrder ==
    Scenario2Allocated =>
        /\ \A k \in MIN_ORDER .. MAX_ORDER - 1 : Len(free_area[k]) = 1
        /\ Len(free_area[MAX_ORDER]) = 0

\* C13, amended: after buddy_init and one buddy_alloc(1) the free lists contain
\* exactly one block at each of the orders 12 to 19, the right halves of the
\* splits; the second buddy_alloc(1) takes the block of order 12, so that after
\* it the lists contain one block at each of the orders 13 to 19 and none at
\* the orders 12 and 20.
C13_SecondAllocTakesOrder12 ==
    /\ (calls = 1 /\ last.op = "alloc" /\ last.arg = 1) =>
          /\ Now = After(AllocCall(InitState, 1))
          /\ last.ret = g_memory
          /\ \A k \in MIN_ORDER .. MAX_ORDER - 1 :
                /\ free_area[k] = <<2 ^ (k - MIN_ORDER)>>
                /\ g_pages[2 ^ (k - MIN_ORDER)].order = k
          /\ free_area[MAX_ORDER] = <<>>
    /\ Scenario2Allocated =>
          /\ Now = After(AllocCall(After(AllocCall(InitState, 1)), 1))
          /\ outstanding = {g_memory, g_memory + PAGE_SIZE}
          /\ last.ret = g_memory + PAGE_SIZE
          /\ free_area[MIN_ORDER] = <<>>
          /\ \A k \in MIN_ORDER + 1 .. MAX_ORDER - 1 :
                /\ free_area[k] = <<2 ^ (k - MIN_ORDER)>>
                /\ g_pages[2 ^ (k - MIN_ORDER)].order = k
          /\ free_area[MAX_ORDER] = <<>>

\* the two allocations of one page were made and the list of order 12 is empty
C13_Witness ==
    /\ Scenario2Allocated
    /\ last.ret = g_memory + PAGE_SIZE
    /\ free_area[MIN_ORDER] = <<>>
    /\ Len(free_area[MIN_ORDER + 1]) = 1

(* ------------------------------------------------------------------ *)
(* C14                                                                *)
(* ------------------------------------------------------------------ *)
\* buddy_init and three allocations, the last of 2^12 bytes: the three blocks
\* held are the first page (order 12), the second page (order 12) and the
\* third and fourth pages (order 13), the second page handed out last
Scenario3Allocated ==
    /\ calls = 3
    /\ last.op = "alloc"
    /\ last.arg = 2 ^ 12
    /\ last.ret = g_memory + PAGE_SIZE
    /\ outstanding = {g_memory, g_memory + PAGE_SIZE, g_memory + 2 * PAGE_SIZE}
    /\ g_pages[0].order = 12
    /\ g_pages[1].order = 12
    /\ g_pages[2].order = 13

\* the state after buddy_alloc(2^12), buddy_alloc(2^13), buddy_alloc(2^12)
\* from the state buddy_init leaves
Scenario3State ==
    After(AllocCall(After(AllocCall(After(AllocCall(InitState, 2 ^ 12)),
                                     2 ^ 13)),
                    2 ^ 12))

\* the free lists after the three blocks are freed in reverse order of their
\* allocation, from the state st
FreedInReverse(st) ==
    LET f1 == FreeCall(st, g_memory + PAGE_SIZE)
        f2 == FreeCall(After(f1), g_memory + 2 * PAGE_SIZE)
        f3 == FreeCall(After(f2), g_memory)
    IN  [fa |-> f3.fa, pg |-> f3.pg,
         spin |-> f1.spin \/ f2.spin \/ f3.spin]

\* C14 as stated: after buddy_init, buddy_alloc(2^12), buddy_alloc(2^13),
\* buddy_alloc(2^12) the blocks have the orders 12, 13, 12 and the free lists
\* hold a single block, of order 12; freeing the three in reverse order
\* restores the single free block of order 20.
C14_SingleOrder12Block ==
    Scenario3Allocated =>
        /\ Len(free_area[12]) = 1
        /\ \A k \in Orders \ {12} : Len(free_area[k]) = 0
        /\ FreedInReverse(Now).fa = InitFree

\* C14, amended: after buddy_init, buddy_alloc(2^12), buddy_alloc(2^13),
\* buddy_alloc(2^12) the blocks have the orders 12, 13, 12 (first page, third
\* page, second page); the free lists then hold no block of the orders 12, 13
\* and 20 and exactly one block at each of the orders 14 to 19; freeing the
\* three in reverse order restores the single free block of order 20.
C14_NoOrder12BlockLeft ==
    /\ Scenario3Allocated =>
          /\ Now = Scenario3State
          /\ free_area[12] = <<>>
          /\ free_area[13] = <<>>
          /\ \A k \in 14 .. 19 :
                /\ free_area[k] = <<2 ^ (k - MIN_ORDER)>>
                /\ g_pages[2 ^ (k - MIN_ORDER)].order = k
          /\ free_area[20] = <<>>
          /\ ~FreedInReverse(Now).spin
          /\ FreedInReverse(Now).fa = InitFree
          /\ FreedInReverse(Now).pg[0].order = MAX_ORDER
    /\ (/\ calls = 2
        /\ last.op = "alloc"
        /\ last.arg = 2 ^ 13
        /\ g_pages[0].order = 12
        /\ Cardinality(outstanding) = 2) =>
          /\ last.ret = g_memory + 2 * PAGE_SIZE
          /\ g_pages[2].order = 13
          /\ free_area[12] = <<1>>
    /\ (/\ calls = 4
        /\ last.op = "free"
        /\ last.arg = g_memory + PAGE_SIZE
        /\ outstanding = {g_memory, g_memory + 2 * PAGE_SIZE}
        /\ g_pages[0].order = 12
        /\ g_pages[2].order = 13) =>
          /\ free_area[12] = <<1>>
          /\ free_area[13] = <<>>
    /\ (/\ calls = 6
        /\ last.op = "free"
        /\ last.arg = g_memory
        /\ outstanding = {}) =>
          /\ free_area = InitFree
          /\ g_pages[0].order = MAX_ORDER

\* the three blocks were allocated and all three freed, the first page last:
\* the descriptors of the second and third pages keep the orders 12 and 13
C14_Witness ==
    /\ calls = 6
    /\ last.op = "free"
    /\ last.arg = g_memory
    /\ outstanding = {}
    /\ g_pages[1].order = 12
    /\ g_pages[2].order = 13
    /\ free_area = InitFree

(* ------------------------------------------------------------------ *)
(* C15                                                                *)
(* ------------------------------------------------------------------ *)
\* the number of calls of splitMemory below the first, for a block of the
\* order `order` and the order asked for; defined for order >= orderNeeded,
\* the recursion of splitMemory has no other end
RECURSIVE SplitDepth(_, _)
SplitDepth(order, orderNeeded) ==
    IF order = orderNeeded THEN 0
    ELSE 1 + SplitDepth(order - 1, orderNeeded)

NonEmptyFrom(T) == {k \in T .. MAX_ORDER : free_area[k] # <<>>}

\* the least member of a non-empty set of orders
Lowest(S) == CHOOSE k \in S : \A j \in S : k <= j

\* the list of order k after the step is the list before it without the
\* entries taken off, behind at most one entry put on at its head
HeadInsertion(k) ==
    LET kept == SelectSeq(free_area[k], LAMBDA e : e \in ListSet(free_area', k))
    IN  \/ free_area'[k] = kept
        \/ /\ free_area'[k] # <<>>
           /\ Tail(free_area'[k]) = kept
           /\ Head(free_area'[k]) \notin ListSet(free_area, k)

\* C16: buddy_alloc(size) with target order T takes its block from the lowest
\* order among T..MAX_ORDER whose free list is not empty, removes the descriptor
\* at the head of that list, the most recently inserted of its entries, and
\* returns that descriptor's own address with its order set to T; it returns
\* NULL if and only if size > 2^MAX_ORDER or all lists T..MAX_ORDER are empty.
C16_HeadOfLowestList ==
    [][/\ \A k \in Orders : HeadInsertion(k)
       /\ last'.op = "alloc" =>
             LET size == last'.arg
                 T == IF size > 2 ^ MAX_ORDER THEN -1 ELSE SmallestOrder(size)
                 none == (size > 2 ^ MAX_ORDER) \/ (NonEmptyFrom(T) = {})
             IN  /\ (last'.ret = NULL) <=> none
                 /\ none => UNCHANGED <<free_area, g_pages>>
                 /\ ~none =>
                       LET k == Lowest(NonEmptyFrom(T))
                           H == Head(free_area[k])
                       IN  /\ last'.ret = g_pages[H].address
                           /\ g_pages'[H].order = T
                           /\ g_pages'[H].address = g_pages[H].address
                           /\ free_area'[k] = Tail(free_area[k])
                           /\ \A j \in Orders : H \notin ListSet(free_area', j)
      ]_vars

\* the list of order 13 held the fifth page and, put on it later, the third;
\* buddy_alloc of two pages took the third
C16_Witness ==
    /\ last.op = "alloc"
    /\ determineOrder(last.arg) = MIN_ORDER + 1
    /\ last.ret = g_pages[2].address
    /\ free_area[MIN_ORDER + 1] = <<6>>
    /\ Cardinality(outstanding) = 3

(* ------------------------------------------------------------------ *)
(* C17                                                                *)
(* ------------------------------------------------------------------ *)
\* C17: when buddy_alloc takes a block of order O for a target order T < O, the
\* split adds exactly one block to each of free_area[T], ..., free_area[O-1],
\* the right half at page head XOR 2^(j-MIN_ORDER) for each j in T..O-1 with
\* its descriptor order set to j, adds nothing to any other list, and the
\* address returned is the start address of the block of order O.
C17_SplitLeavesRightHalves ==
    [][(last'.op = "alloc" /\ last'.ret # NULL) =>
          LET T == SmallestOrder(last'.arg)
              O == Lowest(NonEmptyFrom(T))
              H == Head(free_area[O])
          IN  T < O =>
                  /\ \A j \in T .. O - 1 :
                        /\ free_area'[j] = <<BuddyPage(H, j)>> \o free_area[j]
                        /\ g_pages'[BuddyPage(H, j)].order = j
                        /\ BuddyPage(H, j) = H + 2 ^ (j - MIN_ORDER)
                  /\ free_area'[O] = Tail(free_area[O])
                  /\ \A j \in Orders \ (T .. O) : free_area'[j] = free_area[j]
                  /\ last'.ret = PAGE_TO_ADDR(H)
                  /\ last'.ret = g_pages[H].address
      ]_vars

\* buddy_alloc of one page split the block of order 14 at the fifth page: the
\* caller got the fifth page, the sixth is on the list of order 12 and the
\* seventh heads the block on the list of order 13
C17_Witness ==
    /\ last.op = "alloc"
    /\ determineOrder(last.arg) = MIN_ORDER
    /\ last.ret = PAGE_TO_ADDR(4)
    /\ free_area[MIN_ORDER] = <<5>>
    /\ free_area[MIN_ORDER + 1] = <<6>>
    /\ free_area[MIN_ORDER + 2] = <<>>

(* ------------------------------------------------------------------ *)
(* C18                                                                *)
(* ------------------------------------------------------------------ *)
\* the head page of the block of order m that contains page p
AlignedHead(p, m) == p - (p % 2 ^ (m - MIN_ORDER))

\* the buddy of the block of order m that contains page p is on the list of
\* order m
BuddyFree(p, m) ==
    BuddyPage(AlignedHead(p, m), m) \in ListSet(free_area, m)

\* the first order from k up at which the merging of the block at page p ends
StopOrder(p, k) ==
    CHOOSE j \in k .. MAX_ORDER :
        /\ j = MAX_ORDER \/ ~BuddyFree(p, j)
        /\ \A m \in k .. j - 1 : BuddyFree(p, m)

\* C18: buddy_free on an outstanding block of order k merges upward exactly
\* while the buddy of the current block is on the free list of the current
\* order, and stops at the first order j >= k where the buddy is not free or at
\* j = MAX_ORDER; the resulting block is headed by the lowest page of the merged
\* run, its descriptor order is set to j, and it is inserted at the head of
\* free_area[j]; every descriptor on free_area[j] always has the order field j.
C18_MergeWhileBuddyFree ==
    [][/\ \A j \in Orders : \A e \in ListSet(free_area', j) :
             g_pages'[e].order = j
       /\ (last'.op = "free" /\ last'.held) =>
             LET p == ADDR_TO_PAGE(last'.arg)
                 k == g_pages[p].order
                 j == StopOrder(p, k)
                 head == AlignedHead(p, j)
             IN  /\ \A m \in k .. j - 1 :
                       free_area'[m] =
                           SelectSeq(free_area[m],
                               LAMBDA e : e # BuddyPage(AlignedHead(p, m), m))
                 /\ free_area'[j] = <<head>> \o free_area[j]
                 /\ \A m \in Orders \ (k .. j) : free_area'[m] = free_area[m]
                 /\ head = CHOOSE q \in BlockPages(head, j) :
                              \A r \in BlockPages(head, j) : q <= r
                 /\ p \in BlockPages(head, j)
                 /\ g_pages' = [g_pages EXCEPT ![head].order = j]
      ]_vars

\* buddy_free of the second page found the first page free and merged the two
\* into a block of order 13 headed by the first page; the buddy of that block
\* is held, so the merging ended at order 13
C18_Witness ==
    /\ last.op = "free"
    /\ last.held
    /\ last.arg = PAGE_TO_ADDR(1)
    /\ free_area[MIN_ORDER] = <<>>
    /\ free_area[MIN_ORDER + 1] = <<0>>
    /\ g_pages[0].order = MIN_ORDER + 1
    /\ outstanding = {PAGE_TO_ADDR(2)}

(* ------------------------------------------------------------------ *)
(* C19                                                                *)
(* ------------------------------------------------------------------ *)
\* C19: buddy_init called in any reachable state, with blocks held and blocks
\* on several free lists, leaves the free lists as the first buddy_init did:
\* free_area[MAX_ORDER] holds the descriptor of page 0 alone, with order
\* MAX_ORDER, and every other free list is empty.
C19_InitResets ==
    [][last'.op = "init" =>
          /\ free_area'[MAX_ORDER] = <<0>>
          /\ g_pages'[0].order = MAX_ORDER
          /\ g_pages'[0].address = g_memory
          /\ \A k \in Orders \ {MAX_ORDER} : free_area'[k] = <<>>
          /\ \A p \in Pages \ {0} : g_pages'[p].order = -1
          /\ outstanding' = {}
          /\ AllocCall([fa |-> free_area', pg |-> g_pages'], 2 ^ MAX_ORDER).ret
                = g_memory
      ]_vars

\* buddy_init was called while blocks were held
C19_Witness ==
    /\ last.op = "init"
    /\ last.arg = 1
    /\ free_area = InitFree
    /\ g_pages = InitPages

(* ------------------------------------------------------------------ *)
(* C20                                                                *)
(* ------------------------------------------------------------------ *)
\* C20: while an allocation is outstanding, no later buddy_alloc and no
\* buddy_free of a different outstanding address changes the order field of its
\* head page descriptor or links a page of its block onto a free list; the
\* order buddy_alloc set is the order its buddy_free reads.
C20_HeldBlockUntouched ==
    [][/\ (last'.op = "alloc" /\ last'.ret # NULL) =>
             g_pages'[ADDR_TO_PAGE(last'.ret)].order = SmallestOrder(last'.arg)
       /\ last'.op \in {"alloc", "free"} =>
             \A a \in outstanding \cap outstanding' :
                 LET p == ADDR_TO_PAGE(a)
                     block == BlockPages(p, g_pages[p].order)
                 IN  /\ g_pages'[p].order = g_pages[p].order
                     /\ g_pages'[p].address = a
                     /\ \A k \in Orders : \A e \in ListSet(free_area', k) :
                           /\ e \notin block
                           /\ BlockPages(e, k) \cap block = {}
                     /\ \A b \in outstanding' \ {a} :
                           BlockPages(ADDR_TO_PAGE(b),
                                      g_pages'[ADDR_TO_PAGE(b)].order)
                               \cap block = {}
                     /\ ~FreeCall([fa |-> free_area', pg |-> g_pages'], a).spin
      ]_vars

\* the second page is held with the order 12 it was allocated with, after
\* buddy_free linked its buddy, the first page, and a later buddy_alloc took
\* that page again
C20_Witness ==
    /\ last.op = "alloc"
    /\ last.ret = g_memory
    /\ calls >= 4
    /\ PAGE_TO_ADDR(1) \in outstanding
    /\ g_pages[1].order = MIN_ORDER
    /\ g_pages[0].order = MIN_ORDER
    /\ free_area[MIN_ORDER] = <<>>

====
